---- MODULE Spec2Model ----
(***************************************************************************)
(* The discovery aggregator and its process-wide prediction cache:         *)
(* GET /api/discover and fetchAllPredictions.                              *)
(*                                                                         *)
(* Time is counted in quarter hours.  A request is one invocation of GET;  *)
(* JavaScript runs each handler to its next await without interleaving,    *)
(* so one action is one such run-to-await segment.                         *)
(***************************************************************************)
EXTENDS Integers, Sequences, FiniteSets, TLC

\* ------------------------------------------------------------------ bounds
NumReq == 2        \* requests the process serves in one behaviour
MaxTime == 4       \* last quarter hour the clock reaches
WindowSpan == 3    \* days between the earliest and the latest date of a probed window
NumCultivars == 3  \* cultivars of an authored catalog
MaxFetches == 3    \* calls of fetchDiscoveryData a page makes in one behaviour

\* ------------------------------------------------------- program constants
CACHE_TTL == 2             \* 30 * 60 * 1000 ms, in quarter hours
QuartersPerHour == 4       \* toISOString().slice(0, 13): one key per clock hour
QuartersPerDay == 96
ApproachingThresholdDays == 21
NoDaysUntil == 999         \* p.daysUntil ?? 999
Undefined == 0 - 1         \* daysUntil?: number, absent

Reqs == 1..NumReq
Times == 0..MaxTime

Max(a, b) == IF a >= b THEN a ELSE b
Min(a, b) == IF a <= b THEN a ELSE b
Entries(m) == {m[i] : i \in 1..Len(m)}
Abs(a) == IF a >= 0 THEN a ELSE 0 - a

\* ----------------------------------------------------------------- catalog
\* Two entries of US_GROWING_REGIONS, in the order of the object literal;
\* coordinates in tenths of a degree.
RegionOrder == <<"texas_pecan_belt", "gulf_coast_citrus">>
Regions == {RegionOrder[i] : i \in 1..Len(RegionOrder)}

US_GROWING_REGIONS ==
  [g \in Regions |->
     IF g = "texas_pecan_belt"
       THEN [latitude |-> 315, longitude |-> 0 - 970, viableCrops |-> <<"pecan">>]
       ELSE [latitude |-> 300, longitude |-> 0 - 900,
             viableCrops |-> <<"satsuma", "meyer_lemon">>]]

\* Three calendar cultivars of CULTIVARS with their peakMonths.
CULTIVAR_PEAK_MONTHS ==
  [c \in {"navel_orange", "cara_cara", "valencia_orange"} |->
     IF c = "navel_orange" THEN <<11, 12, 1>>
     ELSE IF c = "cara_cara" THEN <<12, 1, 2>>
     ELSE <<3, 4, 5, 6>>]

\* The processed cultivars of CULTIVARS and the cultivars they name, with the
\* model type and the parent reference of each.
NoParent == "undefined"
CULTIVARS ==
  [c \in {"valencia_orange", "honeycrisp", "grade_a_maple",
          "fresh_squeezed_oj", "fresh_cider", "fresh_evoo"} |->
     IF c = "fresh_squeezed_oj"
       THEN [modelType |-> "parent", parentVarietyId |-> "valencia_orange"]
     ELSE IF c = "fresh_cider"
       THEN [modelType |-> "parent", parentVarietyId |-> "honeycrisp"]
     ELSE IF c = "fresh_evoo"
       THEN [modelType |-> "parent", parentVarietyId |-> "olive"]
     ELSE [modelType |-> "calendar", parentVarietyId |-> NoParent]]

\* Caller location (lat, lon), tenths of a degree.
Locs == {[lat |-> 298, lon |-> 0 - 954]}

\* Two callers: the first nearer the pecan belt, the second on the Gulf coast.
FeedLocs == Locs \cup {[lat |-> 300, lon |-> 0 - 901]}

\* What the weather provider can answer for a region.
GddValues == {[totalGdd |-> 1500, avgDailyGdd |-> 20],
              [totalGdd |-> 1800, avgDailyGdd |-> 20]}
\* Answers that put the offerings before, in and at the peak of their windows.
FeedGdd == GddValues \cup {[totalGdd |-> 1700, avgDailyGdd |-> 20]}
\* Answers of a year, the cold months with little accumulated included.
YearGdd == GddValues \cup {[totalGdd |-> 800, avgDailyGdd |-> 20]}
\* The answer while the weather holds steady.
SteadyGdd == {[totalGdd |-> 1500, avgDailyGdd |-> 20]}

\* ---------------------------------------------------- prediction services
\* Resolved GDD thresholds per crop; a crop with no entry has an incomplete model.
CROP_GDD_TARGETS ==
  [c \in {"pecan", "satsuma"} |->
     IF c = "pecan"
       THEN [maturityGdd |-> 1700, peakStartGdd |-> 2000,
             peakEndGdd |-> 2300, windowEndGdd |-> 2600]
       ELSE [maturityGdd |-> 1600, peakStartGdd |-> 1800,
             peakEndGdd |-> 2000, windowEndGdd |-> 2200]]

HasModel(crop) == crop \in DOMAIN CROP_GDD_TARGETS

CeilDiv(a, b) == (a + b - 1) \div b

\* daysAhead = max(0, (thresholdGdd - totalGdd) / avgDailyGdd)
\* A number that stands for Infinity and NaN: no date is that far away.
Infinity == 1000000

\* The quotient as JavaScript divides: x / 0 is Infinity, -Infinity or NaN.
DaysAheadDivide(thresholdGdd, totalGdd, avgDailyGdd) ==
  IF avgDailyGdd = 0
    THEN (IF thresholdGdd < totalGdd THEN 0 ELSE Infinity)
    ELSE Max(0, CeilDiv(thresholdGdd - totalGdd, avgDailyGdd))

DaysAheadAbs(thresholdGdd, totalGdd, avgDailyGdd) ==
  IF avgDailyGdd <= 0
    THEN (IF thresholdGdd <= totalGdd THEN 0 ELSE NoDaysUntil)
    ELSE CeilDiv(Abs(thresholdGdd - totalGdd), avgDailyGdd)
DaysAheadUnclamped(thresholdGdd, totalGdd, avgDailyGdd) ==
  IF avgDailyGdd <= 0
    THEN (IF thresholdGdd <= totalGdd THEN 0 ELSE NoDaysUntil)
    ELSE CeilDiv(thresholdGdd - totalGdd, avgDailyGdd)
DaysAhead(thresholdGdd, totalGdd, avgDailyGdd) ==
  IF avgDailyGdd <= 0
    THEN (IF thresholdGdd <= totalGdd THEN 0 ELSE NoDaysUntil)
    ELSE Max(0, CeilDiv(thresholdGdd - totalGdd, avgDailyGdd))

\* Confidence of a projected window, in tenths: low when nothing accumulates.
LowConfidence == 1
RatedConfidence == 8
projectConfidence(avgDailyGdd) ==
  IF avgDailyGdd <= 0 THEN LowConfidence ELSE RatedConfidence

\* The window with the end of the peak projected from the maturity threshold.
predictHarvestWindowMixedUp(crop, totalGdd, avgDailyGdd, today) ==
  LET t == CROP_GDD_TARGETS[crop]
  IN [harvestStartDate |-> today + DaysAhead(t.maturityGdd, totalGdd, avgDailyGdd),
      peakStartDate |-> today + DaysAhead(t.peakStartGdd, totalGdd, avgDailyGdd),
      peakEndDate |-> today + DaysAhead(t.maturityGdd, totalGdd, avgDailyGdd),
      harvestEndDate |-> today + DaysAhead(t.windowEndGdd, totalGdd, avgDailyGdd)]

predictHarvestWindow(crop, totalGdd, avgDailyGdd, today) ==
  LET t == CROP_GDD_TARGETS[crop]
  IN [harvestStartDate |-> today + DaysAhead(t.maturityGdd, totalGdd, avgDailyGdd),
      peakStartDate |-> today + DaysAhead(t.peakStartGdd, totalGdd, avgDailyGdd),
      peakEndDate |-> today + DaysAhead(t.peakEndGdd, totalGdd, avgDailyGdd),
      harvestEndDate |-> today + DaysAhead(t.windowEndGdd, totalGdd, avgDailyGdd)]

getHarvestStatus(w, today) ==
  IF today < w.harvestStartDate
    THEN (IF w.harvestStartDate - today <= ApproachingThresholdDays
            THEN [status |-> "approaching", daysUntil |-> w.harvestStartDate - today]
            ELSE [status |-> "off_season", daysUntil |-> Undefined])
  ELSE IF w.peakStartDate <= today /\ today <= w.peakEndDate
    THEN [status |-> "at_peak", daysUntil |-> Undefined]
  ELSE IF today <= w.harvestEndDate
    THEN [status |-> "in_season", daysUntil |-> Undefined]
  ELSE [status |-> "off_season", daysUntil |-> Undefined]

\* The status of the full model: the stretch after the peak that the feed
\* counts as in_season is past_peak, and the two off-season ends have names.
classifyStatusOpenEnd(w, today) ==
  IF today < w.harvestStartDate
    THEN (IF w.harvestStartDate - today <= ApproachingThresholdDays
            THEN [status |-> "approaching", daysUntil |-> w.harvestStartDate - today]
            ELSE [status |-> "pre_season", daysUntil |-> Undefined])
  ELSE IF w.peakStartDate <= today /\ today <= w.peakEndDate
    THEN [status |-> "at_peak", daysUntil |-> Undefined]
  ELSE IF today < w.peakStartDate
    THEN [status |-> "in_season", daysUntil |-> Undefined]
  ELSE IF today < w.harvestEndDate
    THEN [status |-> "past_peak", daysUntil |-> Undefined]
  ELSE [status |-> "ended", daysUntil |-> Undefined]

\* The same with the stretch after the peak under the feed's name, in_season.
classifyStatusFeedNames(w, today) ==
  IF today < w.harvestStartDate
    THEN (IF w.harvestStartDate - today <= ApproachingThresholdDays
            THEN [status |-> "approaching", daysUntil |-> w.harvestStartDate - today]
            ELSE [status |-> "pre_season", daysUntil |-> Undefined])
  ELSE IF w.peakStartDate <= today /\ today <= w.peakEndDate
    THEN [status |-> "at_peak", daysUntil |-> Undefined]
  ELSE IF today <= w.harvestEndDate
    THEN [status |-> "in_season", daysUntil |-> Undefined]
  ELSE [status |-> "ended", daysUntil |-> Undefined]

classifyStatus(w, today) ==
  IF today < w.harvestStartDate
    THEN (IF w.harvestStartDate - today <= ApproachingThresholdDays
            THEN [status |-> "approaching", daysUntil |-> w.harvestStartDate - today]
            ELSE [status |-> "pre_season", daysUntil |-> Undefined])
  ELSE IF w.peakStartDate <= today /\ today <= w.peakEndDate
    THEN [status |-> "at_peak", daysUntil |-> Undefined]
  ELSE IF today < w.peakStartDate
    THEN [status |-> "in_season", daysUntil |-> Undefined]
  ELSE IF today <= w.harvestEndDate
    THEN [status |-> "past_peak", daysUntil |-> Undefined]
  ELSE [status |-> "ended", daysUntil |-> Undefined]

\* The discovery-feed simplification of a full-model status.
FeedStatus(s) ==
  IF s \in {"pre_season", "ended"} THEN "off_season"
  ELSE IF s = "past_peak" THEN "in_season"
  ELSE s

\* Calendar model.  Days are counted from 1 January of the year before the
\* current one, so that a season begun last year has dates; no leap years.
MonthDays == <<31, 28, 31, 30, 31, 30, 31, 31, 30, 31, 30, 31>>
MonthsPerYear == Len(MonthDays)

DaysBefore[m \in 1..MonthsPerYear] == IF m = 1 THEN 0 ELSE DaysBefore[m - 1] + MonthDays[m - 1]
DaysPerYear == DaysBefore[MonthsPerYear] + MonthDays[MonthsPerYear]

\* Months are numbered across years: month m of year y is 12 * y + m - 1.
MonthStart(am) == DaysPerYear * (am \div MonthsPerYear) + DaysBefore[(am % MonthsPerYear) + 1]
MonthEnd(am) == MonthStart(am) + MonthDays[(am % MonthsPerYear) + 1] - 1

ThisYear == 1
DateOf(month, day) == MonthStart(MonthsPerYear * ThisYear + month - 1) + day - 1

\* Offsets of the harvest window around the peak-month span, in months.
CalendarLeadMonths == 0
CalendarTailMonths == 1

\* The season of the peak-month list whose first month falls in year y; a
\* list that runs past December ends in year y + 1.
CalendarSeason(peakMonths, y) ==
  LET first == MonthsPerYear * y + peakMonths[1] - 1
      last == first + Len(peakMonths) - 1
  IN [harvestStartDate |-> MonthStart(first - CalendarLeadMonths),
      peakStartDate |-> MonthStart(first),
      peakEndDate |-> MonthEnd(last),
      harvestEndDate |-> MonthEnd(last + CalendarTailMonths)]

\* The season with every listed month taken from the current year.
projectCalendarWindowSameYear(peakMonths, today) ==
  LET first == MonthsPerYear * ThisYear + peakMonths[1] - 1
      last == MonthsPerYear * ThisYear + peakMonths[Len(peakMonths)] - 1
  IN [harvestStartDate |-> MonthStart(first - CalendarLeadMonths),
      peakStartDate |-> MonthStart(first),
      peakEndDate |-> MonthEnd(last),
      harvestEndDate |-> MonthEnd(last + CalendarTailMonths)]

\* The season taken without regard to the year boundary: earliest to latest
\* listed month of the current year.
projectCalendarWindowNoWrap(peakMonths, today) ==
  LET lo == CHOOSE m \in Entries(peakMonths) : \A n \in Entries(peakMonths) : m <= n
      hi == CHOOSE m \in Entries(peakMonths) : \A n \in Entries(peakMonths) : m >= n
  IN [harvestStartDate |-> MonthStart(MonthsPerYear * ThisYear + lo - 1 - CalendarLeadMonths),
      peakStartDate |-> MonthStart(MonthsPerYear * ThisYear + lo - 1),
      peakEndDate |-> MonthEnd(MonthsPerYear * ThisYear + hi - 1),
      harvestEndDate |-> MonthEnd(MonthsPerYear * ThisYear + hi - 1 + CalendarTailMonths)]

\* The nearest occurrence of the peak months relative to today: the season
\* still running, or else the next one to start.
projectCalendarWindow(peakMonths, today) ==
  LET y == CHOOSE k \in 0..(ThisYear + 1) :
             /\ today <= CalendarSeason(peakMonths, k).harvestEndDate
             /\ \A j \in 0..(k - 1) : today > CalendarSeason(peakMonths, j).harvestEndDate
  IN CalendarSeason(peakMonths, y)

\* An optional field is <<>> when undefined and <<v>> when it holds v.
\* b ?? a: the operands the other way round.
NullishReversed(a, b) == IF b # <<>> THEN b ELSE a
\* a ?? b: a unless a is undefined.
Nullish(a, b) == IF a # <<>> THEN a ELSE b

\* getOfferingDetails with the three lookups done: each of offering, variety
\* and product is <<>> when its table has no such id.
getOfferingDetails(offering, variety, product) ==
  IF offering = <<>> THEN [isNull |-> TRUE]
  ELSE IF variety = <<>> THEN [isNull |-> TRUE]
  ELSE IF product = <<>> THEN [isNull |-> TRUE]
  ELSE [isNull |-> FALSE,
        offering |-> offering[1],
        variety |-> variety[1],
        product |-> product[1],
        gddToMaturity |-> Nullish(offering[1].gddToMaturityOverride, variety[1].gddToMaturity),
        gddToPeak |-> Nullish(offering[1].gddToPeakOverride, variety[1].gddToPeak),
        gddWindow |-> Nullish(offering[1].gddWindowOverride, variety[1].gddWindow),
        baseTemp |-> Nullish(offering[1].baseTempOverride, variety[1].baseTemp),
        peakMonths |-> Nullish(offering[1].peakMonthsOverride, variety[1].peakMonths)]

\* One hop of the cultivar model resolver in catalog cat: at a cultivar that
\* is not a parent it has resolved; at a parent seen before on this chain it
\* fails; at an id the catalog lacks there is nothing to return; otherwise it
\* goes on to the referenced ancestor.
resolveHopNoGuard(cat, at, visited) ==
  IF at \notin DOMAIN cat THEN [at |-> at, visited |-> visited, result |-> "null"]
  ELSE IF cat[at].modelType # "parent"
    THEN [at |-> at, visited |-> visited, result |-> "resolved"]
  ELSE [at |-> cat[at].parentVarietyId, visited |-> visited \cup {at},
        result |-> "pending"]

resolveHop(cat, at, visited) ==
  IF at \notin DOMAIN cat THEN [at |-> at, visited |-> visited, result |-> "null"]
  ELSE IF cat[at].modelType # "parent"
    THEN [at |-> at, visited |-> visited, result |-> "resolved"]
  ELSE IF at \in visited
    THEN [at |-> at, visited |-> visited, result |-> "InvalidCultivarChain"]
  ELSE [at |-> cat[at].parentVarietyId, visited |-> visited \cup {at},
        result |-> "pending"]

getDistanceMiles(lat, lon, rlat, rlon) == Abs(lat - rlat) + Abs(lon - rlon)

\* Date.now() / new Date() conversions
HourKey(t) == t \div QuartersPerHour
Today(t) == t \div QuartersPerDay

\* ------------------------------------------------------------------- state
VARIABLES
  now,            \* the clock, in quarter hours
  cache,          \* Map<string, {data, timestamp}>: a function on the keys set so far
  pc,             \* per request: "idle", "fetching" (awaiting Promise.all), "done"
  loc,            \* per request: the lat/lon it was called with
  cacheKey,       \* per request: the hour key computed on entry
  pending,        \* per request: regions whose getGddAccumulation has not settled
  regionGddMap,   \* per request: Map entries <<regionId, gddData>> in insertion order
  threw,          \* per request: Promise.all has rejected
  response,       \* per request: the JSON body returned
  allPredictions, \* per request: the prediction set the response was built from
  fromCache,      \* per request: it took the cache-hit path
  entryAge,       \* per request: age on entry of the cache entry under its key,
                  \*   Undefined when the cache held none
  gddCalls,       \* per request and region: calls of getGddAccumulation issued
  completed,      \* prediction sets returned by finished fetchAllPredictions runs
  dataAge,        \* per request in flight: quarter hours since its first weather
                  \*   answer; per request served from the cache: quarter hours
                  \*   from the first weather answer behind the entry to the
                  \*   request; counted up to CACHE_TTL + 1, Undefined while there
                  \*   is no weather answer, Untimed where ages are not measured
  cacheLag,       \* per cache key: quarter hours from the first weather answer
                  \*   behind the stored set to its cache.set
  probe,          \* the last call of a prediction service: its inputs and results
  home            \* the state of the Home page component in one browser tab

vars == <<now, cache, pc, loc, cacheKey, pending, regionGddMap, threw, response,
          allPredictions, fromCache, entryAge, gddCalls, completed, dataAge,
          cacheLag, probe, home>>

\* The state of the discover route.
routeVars == <<now, cache, pc, loc, cacheKey, pending, regionGddMap, threw, response,
               allPredictions, fromCache, entryAge, gddCalls, completed, dataAge,
               cacheLag>>

NoProbe == [op |-> "none"]

\* The value of dataAge and cacheLag in behaviours that do not measure ages.
Untimed == 0 - 2

NoLoc == [lat |-> 0, lon |-> 0]
NoResponse == [status |-> 0]
HourKeys == {HourKey(t) : t \in Times}

\* ------------------------------------------------------ fetchAllPredictions
\* combinations: every crop of every region, regions in object order.
Combinations ==
  LET f[i \in 0..Len(RegionOrder)] ==
        IF i = 0 THEN <<>>
        ELSE f[i - 1] \o
             [k \in 1..Len(US_GROWING_REGIONS[RegionOrder[i]].viableCrops) |->
                [crop |-> US_GROWING_REGIONS[RegionOrder[i]].viableCrops[k],
                 region |-> RegionOrder[i]]]
  IN f[Len(RegionOrder)]

MapHas(m, g) == \E i \in 1..Len(m) : m[i][1] = g
MapGet(m, g) == m[CHOOSE i \in 1..Len(m) : m[i][1] = g][2]
MapSet(m, g, v) ==
  IF MapHas(m, g)
    THEN [i \in 1..Len(m) |-> IF m[i][1] = g THEN <<g, v>> ELSE m[i]]
    ELSE Append(m, <<g, v>>)

\* The regions getGddAccumulation is called for, one call each, in call order.
FetchCallsPerOffering == [i \in 1..Len(Combinations) |-> Combinations[i].region]
FetchCalls == RegionOrder

CallCount(g) == Cardinality({i \in 1..Len(FetchCalls) : FetchCalls[i] = g})

\* The async callback of one region once its fetch settles: a resolved fetch
\* is stored, a rejected one is caught and logged.
RegionCallbackNoCatch(m, g, ok, gddData) ==
  IF ok THEN [map |-> MapSet(m, g, gddData), threw |-> FALSE]
        ELSE [map |-> m, threw |-> TRUE]
RegionCallback(m, g, ok, gddData) ==
  IF ok THEN [map |-> MapSet(m, g, gddData), threw |-> FALSE]
        ELSE [map |-> m, threw |-> FALSE]

\* One pass of the prediction loop body; a throw inside it drops the item.
PredictThrows(crop) == ~HasModel(crop)
PredictOne(crop, regionId, gddData, today) ==
  IF PredictThrows(crop) THEN <<>>
  ELSE LET window == predictHarvestWindow(crop, gddData.totalGdd,
                                          gddData.avgDailyGdd, today)
           status == getHarvestStatus(window, today)
       IN <<[crop |-> crop,
             region |-> regionId,
             distanceMiles |-> 0,
             status |-> status.status,
             harvestStart |-> window.harvestStartDate,
             harvestEnd |-> window.harvestEndDate,
             optimalStart |-> window.peakStartDate,
             optimalEnd |-> window.peakEndDate,
             daysUntil |-> status.daysUntil]>>

\* The prediction loop with a missing region ending the loop (break for continue).
PredictAllBreakOnMissing(m, today) ==
  LET C == Combinations
      f[i \in 0..Len(C)] ==
        IF i = 0 THEN <<>>
        ELSE IF \E j \in 1..i : ~MapHas(m, C[j].region) THEN f[i - 1]
        ELSE f[i - 1] \o PredictOne(C[i].crop, C[i].region, MapGet(m, C[i].region), today)
  IN f[Len(C)]
\* The prediction loop without its try: a throw for one offering escapes
\* and no prediction is returned.
PredictAllNoTry(m, today) ==
  LET C == Combinations
      f[i \in 0..Len(C)] ==
        IF i = 0 THEN <<>>
        ELSE IF ~MapHas(m, C[i].region) THEN f[i - 1]
        ELSE f[i - 1] \o PredictOne(C[i].crop, C[i].region, MapGet(m, C[i].region), today)
  IN IF \E i \in 1..Len(C) : MapHas(m, C[i].region) /\ PredictThrows(C[i].crop)
       THEN <<>> ELSE f[Len(C)]
\* The prediction loop walking regionGddMap (insertion order) instead of combinations.
PredictAllMapOrder(m, today) ==
  LET f[i \in 0..Len(m)] ==
        IF i = 0 THEN <<>>
        ELSE LET crops == US_GROWING_REGIONS[m[i][1]].viableCrops
                 h[k \in 0..Len(crops)] ==
                   IF k = 0 THEN <<>>
                   ELSE h[k - 1] \o PredictOne(crops[k], m[i][1], m[i][2], today)
             IN f[i - 1] \o h[Len(crops)]
  IN f[Len(m)]
\* The prediction loop: combinations in order, regions without data skipped.
PredictAll(m, today) ==
  LET C == Combinations
      f[i \in 0..Len(C)] ==
        IF i = 0 THEN <<>>
        ELSE IF ~MapHas(m, C[i].region) THEN f[i - 1]
        ELSE f[i - 1] \o PredictOne(C[i].crop, C[i].region, MapGet(m, C[i].region), today)
  IN f[Len(C)]

\* ---------------------------------------------------------------------- GET
DaysOr999(p) == IF p.daysUntil = Undefined THEN NoDaysUntil ELSE p.daysUntil

\* At peak first, then by distance
InSeasonCmpByDistance(a, b) == a.distanceMiles - b.distanceMiles
InSeasonCmp(a, b) ==
  IF a.status = "at_peak" /\ b.status # "at_peak" THEN 0 - 1
  ELSE IF b.status = "at_peak" /\ a.status # "at_peak" THEN 1
  ELSE a.distanceMiles - b.distanceMiles

\* Soonest first, then by distance
ComingSoonCmpByDistance(a, b) == a.distanceMiles - b.distanceMiles
ComingSoonCmp(a, b) ==
  IF DaysOr999(a) # DaysOr999(b) THEN DaysOr999(a) - DaysOr999(b)
  ELSE a.distanceMiles - b.distanceMiles

IsInSeason(p) == p.status = "at_peak" \/ p.status = "in_season"
IsComingSoonUnder(p) == p.status = "approaching" /\ DaysOr999(p) < ApproachingThresholdDays
IsComingSoon(p) == p.status = "approaching" /\ DaysOr999(p) <= ApproachingThresholdDays

\* The comparator and the filter of a bucket, "inSeason" or "comingSoon".
Cmp(bucket, a, b) == IF bucket = "inSeason" THEN InSeasonCmp(a, b) ELSE ComingSoonCmp(a, b)
Keep(bucket, p) == IF bucket = "inSeason" THEN IsInSeason(p) ELSE IsComingSoon(p)

\* Array.prototype.sort with the bucket's comparator: stable, smaller first.
Insert(sorted, x, bucket) ==
  LET k == Max(0, CHOOSE n \in 0..Len(sorted) :
                    /\ \A i \in 1..n : Cmp(bucket, sorted[i], x) <= 0
                    /\ \A i \in (n + 1)..Len(sorted) : Cmp(bucket, sorted[i], x) > 0)
  IN SubSeq(sorted, 1, k) \o <<x>> \o SubSeq(sorted, k + 1, Len(sorted))

Sort(s, bucket) ==
  LET f[i \in 0..Len(s)] == IF i = 0 THEN <<>> ELSE Insert(f[i - 1], s[i], bucket)
  IN f[Len(s)]

\* Array.prototype.filter with the bucket's predicate.
Filter(s, bucket) ==
  LET f[i \in 0..Len(s)] ==
        IF i = 0 THEN <<>>
        ELSE IF Keep(bucket, s[i]) THEN Append(f[i - 1], s[i]) ELSE f[i - 1]
  IN f[Len(s)]

WithDistance(preds, l) ==
  [i \in 1..Len(preds) |->
     [preds[i] EXCEPT !.distanceMiles =
        getDistanceMiles(l.lat, l.lon,
                         US_GROWING_REGIONS[preds[i].region].latitude,
                         US_GROWING_REGIONS[preds[i].region].longitude)]]

\* The 200 body built from a prediction set for a caller at l (the timestamp
\* field, which is no bucket content, is left out).
BuildResponse(preds, l) ==
  [status |-> 200,
   inSeason |-> Sort(Filter(WithDistance(preds, l), "inSeason"), "inSeason"),
   comingSoon |-> Sort(Filter(WithDistance(preds, l), "comingSoon"), "comingSoon"),
   totalRegions |-> Cardinality(Regions)]

ErrorResponse(code) == [status |-> code]

\* cached && Date.now() - cached.timestamp < CACHE_TTL
CacheHitFlipped(c, key, t) == key \in DOMAIN c /\ t - c[key].timestamp > CACHE_TTL
CacheHitAtTtl(c, key, t) == key \in DOMAIN c /\ t - c[key].timestamp <= CACHE_TTL
CacheHit(c, key, t) == key \in DOMAIN c /\ t - c[key].timestamp < CACHE_TTL

CacheSet(c, key, data, t) ==
  [k \in DOMAIN c \cup {key} |->
     IF k = key THEN [data |-> data, timestamp |-> t] ELSE c[k]]

\* The cache as the miss branch leaves it before awaiting fetchAllPredictions.
CacheOnMissEarlyWrite(c, key, t) == CacheSet(c, key, <<>>, t)
CacheOnMiss(c, key, t) == c

\* The cache after GET has built withDistance and the buckets for a caller at
\* l: map, the object spread and filter make new arrays and new items, so the
\* entry under key is as it was.
CacheAfterServeInPlace(c, key, l) ==
  [c EXCEPT ![key] = [@ EXCEPT !.data = WithDistance(@, l)]]
CacheAfterServe(c, key, l) == c

\* ---------------------------------------------------------------- the pages
\* Places a page asks discovery for: the default location, the place the
\* browser's geolocation reports, and cities of the city picker.
DEFAULT_LOCATION == "default"
GeoPlace == "geo"
FALLBACK_CITIES == {"city1", "city2"}
NoPlace == "null"

\* useState initial values of Home; hasLoadedInitial is false until the
\* mount effect has run.  requested and issued record the calls of
\* fetchDiscoveryData: the place of the latest call and their number.
HomeRenders ==
  [hasLoadedInitial |-> FALSE,
   manualLocation |-> NoPlace,
   geoLocation |-> NoPlace,
   data |-> NoPlace,
   loading |-> TRUE,
   error |-> FALSE,
   inFlight |-> {},
   requested |-> NoPlace,
   issued |-> 0]

\* fetchDiscoveryData up to its await: loading set, error cleared, the
\* request sent.  Requests sent before stay in flight.
fetchDiscoveryData(h, place) ==
  [h EXCEPT !.loading = TRUE,
            !.error = FALSE,
            !.inFlight = @ \cup {[n |-> h.issued + 1, place |-> place]},
            !.requested = place,
            !.issued = @ + 1]

\* ------------------------------------------------------------------ actions
InitRoute ==
  /\ now = 0
  /\ cache = <<>>
  /\ pc = [r \in Reqs |-> "idle"]
  /\ loc = [r \in Reqs |-> NoLoc]
  /\ cacheKey = [r \in Reqs |-> 0]
  /\ pending = [r \in Reqs |-> {}]
  /\ regionGddMap = [r \in Reqs |-> <<>>]
  /\ threw = [r \in Reqs |-> FALSE]
  /\ response = [r \in Reqs |-> NoResponse]
  /\ allPredictions = [r \in Reqs |-> <<>>]
  /\ fromCache = [r \in Reqs |-> FALSE]
  /\ entryAge = [r \in Reqs |-> Undefined]
  /\ gddCalls = [r \in Reqs |-> [g \in Regions |-> 0]]
  /\ completed = {}
  /\ cacheLag = <<>>
  /\ probe = NoProbe
  /\ home = HomeRenders

Init == InitRoute /\ dataAge = [r \in Reqs |-> Untimed]

\* The same start with the age of the weather data measured.
InitTimed == InitRoute /\ dataAge = [r \in Reqs |-> Undefined]

\* Wall-clock time passes.
Tick ==
  /\ now < MaxTime
  /\ now' = now + 1
  /\ dataAge' = [r \in Reqs |->
                   IF pc[r] = "fetching" /\ dataAge[r] >= 0
                     THEN Min(dataAge[r] + 1, CACHE_TTL + 1)
                     ELSE dataAge[r]]
  /\ UNCHANGED <<cache, pc, loc, cacheKey, pending, regionGddMap, threw, response,
                 allPredictions, fromCache, entryAge, gddCalls, completed, cacheLag,
                 probe, home>>

\* Requests are numbered in their order of arrival.
Arrives(r) == pc[r] = "idle" /\ \A q \in 1..(r - 1) : pc[q] # "idle"

\* GET with lat or lon missing or not a number.
BadRequest(r) ==
  /\ Arrives(r)
  /\ pc' = [pc EXCEPT ![r] = "done"]
  /\ response' = [response EXCEPT ![r] = ErrorResponse(400)]
  /\ UNCHANGED <<now, cache, loc, cacheKey, pending, regionGddMap, threw,
                 allPredictions, fromCache, entryAge, gddCalls, completed, dataAge,
                 cacheLag, probe, home>>

\* GET entered with a valid location: served from the cache at once, or
\* fetchAllPredictions started, which issues every weather fetch and awaits.
Start(r, l) ==
  /\ Arrives(r)
  /\ loc' = [loc EXCEPT ![r] = l]
  /\ cacheKey' = [cacheKey EXCEPT ![r] = HourKey(now)]
  /\ entryAge' = [entryAge EXCEPT
                    ![r] = IF HourKey(now) \in DOMAIN cache
                             THEN now - cache[HourKey(now)].timestamp
                             ELSE Undefined]
  /\ IF CacheHit(cache, HourKey(now), now)
       THEN /\ allPredictions' = [allPredictions EXCEPT ![r] = cache[HourKey(now)].data]
            /\ fromCache' = [fromCache EXCEPT ![r] = TRUE]
            /\ response' = [response EXCEPT
                              ![r] = BuildResponse(cache[HourKey(now)].data, l)]
            /\ pc' = [pc EXCEPT ![r] = "done"]
            /\ cache' = CacheAfterServe(cache, HourKey(now), l)
            /\ dataAge' = [dataAge EXCEPT
                              ![r] = IF cacheLag[HourKey(now)] < 0 THEN cacheLag[HourKey(now)]
                                     ELSE Min(now - cache[HourKey(now)].timestamp
                                                + cacheLag[HourKey(now)], CACHE_TTL + 1)]
            /\ UNCHANGED <<pending, gddCalls>>
       ELSE /\ pc' = [pc EXCEPT ![r] = "fetching"]
            /\ pending' = [pending EXCEPT ![r] = {FetchCalls[i] : i \in 1..Len(FetchCalls)}]
            /\ gddCalls' = [gddCalls EXCEPT ![r] = [g \in Regions |-> CallCount(g)]]
            /\ cache' = CacheOnMiss(cache, HourKey(now), now)
            /\ UNCHANGED <<allPredictions, fromCache, response, dataAge>>
  /\ UNCHANGED <<now, regionGddMap, threw, completed, cacheLag, probe, home>>

\* getGddAccumulation for region g resolves with v.
FetchResolve(r, g, v) ==
  /\ pc[r] = "fetching"
  /\ g \in pending[r]
  /\ pending' = [pending EXCEPT ![r] = @ \ {g}]
  /\ regionGddMap' = [regionGddMap EXCEPT
                        ![r] = RegionCallback(@, g, TRUE, v).map]
  /\ threw' = [threw EXCEPT ![r] = @ \/ RegionCallback(regionGddMap[r], g, TRUE, v).threw]
  /\ dataAge' = [dataAge EXCEPT ![r] = IF @ = Undefined THEN 0 ELSE @]
  /\ UNCHANGED <<now, cache, pc, loc, cacheKey, response, allPredictions, fromCache,
                 entryAge, gddCalls, completed, cacheLag, probe, home>>

\* getGddAccumulation for region g rejects (no coverage, timeout).
FetchReject(r, g) ==
  /\ pc[r] = "fetching"
  /\ g \in pending[r]
  /\ pending' = [pending EXCEPT ![r] = @ \ {g}]
  /\ regionGddMap' = [regionGddMap EXCEPT
                        ![r] = RegionCallback(@, g, FALSE, <<>>).map]
  /\ threw' = [threw EXCEPT
                 ![r] = @ \/ RegionCallback(regionGddMap[r], g, FALSE, <<>>).threw]
  /\ UNCHANGED <<now, cache, pc, loc, cacheKey, response, allPredictions, fromCache,
                 entryAge, gddCalls, completed, dataAge, cacheLag, probe, home>>

\* Promise.all settles: the prediction loop runs, fetchAllPredictions returns,
\* GET stores the set under the key it computed on entry and answers.  A
\* rejection of Promise.all reaches the catch of GET instead.
Complete(r) ==
  /\ pc[r] = "fetching"
  /\ pending[r] = {} \/ threw[r]
  /\ pc' = [pc EXCEPT ![r] = "done"]
  /\ dataAge' = [dataAge EXCEPT ![r] = IF @ = Untimed THEN Untimed ELSE Undefined]
  /\ IF threw[r]
       THEN /\ response' = [response EXCEPT ![r] = ErrorResponse(500)]
            /\ UNCHANGED <<cache, allPredictions, completed, cacheLag>>
       ELSE LET preds == PredictAll(regionGddMap[r], Today(now))
            IN /\ allPredictions' = [allPredictions EXCEPT ![r] = preds]
               /\ completed' = completed \cup {preds}
               /\ cache' = CacheAfterServe(CacheSet(cache, cacheKey[r], preds, now),
                                           cacheKey[r], loc[r])
               /\ response' = [response EXCEPT ![r] = BuildResponse(preds, loc[r])]
               /\ cacheLag' = [k \in DOMAIN cacheLag \cup {cacheKey[r]} |->
                                IF k = cacheKey[r] THEN dataAge[r] ELSE cacheLag[k]]
  /\ UNCHANGED <<now, loc, cacheKey, pending, regionGddMap, threw, fromCache,
                 entryAge, gddCalls, probe, home>>

\* A burst of requests within one quarter hour, under any weather.
NextBatch ==
  \/ \E r \in Reqs : BadRequest(r)
  \/ \E r \in Reqs, l \in Locs : Start(r, l)
  \/ \E r \in Reqs, g \in Regions, v \in GddValues : FetchResolve(r, g, v)
  \/ \E r \in Reqs, g \in Regions : FetchReject(r, g)
  \/ \E r \in Reqs : Complete(r)

SpecBatch == Init /\ [][NextBatch]_vars

\* A burst of requests from two places while the weather provider answers.
NextFeed ==
  \/ \E r \in Reqs, l \in FeedLocs : Start(r, l)
  \/ \E r \in Reqs, g \in Regions, v \in FeedGdd : FetchResolve(r, g, v)
  \/ \E r \in Reqs : Complete(r)

SpecFeed == Init /\ [][NextFeed]_vars

\* A burst of requests at any time of the year while the weather provider answers.
NextYear ==
  \/ \E r \in Reqs, l \in Locs : Start(r, l)
  \/ \E r \in Reqs, g \in Regions, v \in YearGdd : FetchResolve(r, g, v)
  \/ \E r \in Reqs : Complete(r)

SpecYear == Init /\ [][NextYear]_vars

\* ------------------------------------------------- the prediction services
\* Windows with harvestStart <= peakStart <= peakEnd <= harvestEnd, late
\* enough that the days before them reach past the approaching threshold.
WindowFrom == ApproachingThresholdDays + 2
WindowDates == WindowFrom..(WindowFrom + WindowSpan)
Windows ==
  {w \in [harvestStartDate : WindowDates, peakStartDate : WindowDates,
          peakEndDate : WindowDates, harvestEndDate : WindowDates] :
     /\ w.harvestStartDate <= w.peakStartDate
     /\ w.peakStartDate <= w.peakEndDate
     /\ w.peakEndDate <= w.harvestEndDate}
ClassifyDays == 0..(WindowFrom + WindowSpan + 2)

\* Accumulations before, at and past each threshold; rates with and without growth.
ProbeGdd ==
  [totalGdd : {0, 800, 1160, 1180, 1590, 1600, 1900, 2250, 2700},
   avgDailyGdd : {0 - 10, 0, 20, 30}]
ProbeDays == {0, 7}
CalendarDays == DateOf(1, 1)..DateOf(MonthsPerYear, MonthDays[MonthsPerYear])

\* Each behaviour follows one call of a service from the initial state.
\* getHarvestStatus is asked about window w on day d.
Classify(w, d) ==
  /\ probe = NoProbe
  /\ probe' = [op |-> "classify", window |-> w, today |-> d,
               before |-> classifyStatus(w, d).status,
               full |-> classifyStatus(w, d),
               feed |-> getHarvestStatus(w, d)]
  /\ UNCHANGED <<routeVars, home>>

\* The same window is asked about again the day after.
NextDay ==
  /\ probe.op = "classify"
  /\ probe.today + 1 \in ClassifyDays
  /\ probe' = [probe EXCEPT !.today = @ + 1,
                            !.before = probe.full.status,
                            !.full = classifyStatus(probe.window, probe.today + 1),
                            !.feed = getHarvestStatus(probe.window, probe.today + 1)]
  /\ UNCHANGED <<routeVars, home>>

\* One pass of the prediction loop for a GDD crop of region g on day d.
ProjectGdd(crop, g, v, d) ==
  /\ probe = NoProbe
  /\ probe' = [op |-> "gdd", crop |-> crop, gdd |-> v, today |-> d,
               window |-> predictHarvestWindow(crop, v.totalGdd, v.avgDailyGdd, d),
               prior |-> predictHarvestWindow(crop, v.totalGdd, v.avgDailyGdd, d),
               confidence |-> projectConfidence(v.avgDailyGdd),
               item |-> PredictOne(crop, g, v, d)]
  /\ UNCHANGED <<routeVars, home>>

\* The same offering on the same day at the same rate, with more heat
\* accumulated.
MoreGdd(totalGdd) ==
  /\ probe.op = "gdd"
  /\ totalGdd > probe.gdd.totalGdd
  /\ probe' = [probe EXCEPT
                 !.gdd = [@ EXCEPT !.totalGdd = totalGdd],
                 !.prior = probe.window,
                 !.window = predictHarvestWindow(probe.crop, totalGdd,
                                                 probe.gdd.avgDailyGdd, probe.today),
                 !.item = PredictOne(probe.crop, probe.item[1].region,
                                     [probe.gdd EXCEPT !.totalGdd = totalGdd], probe.today)]
  /\ UNCHANGED <<routeVars, home>>

\* The window and status of a calendar cultivar on day d of the current year.
ProjectCalendar(c, d) ==
  /\ probe = NoProbe
  /\ probe' = [op |-> "calendar", cultivar |-> c, today |-> d,
               window |-> projectCalendarWindow(CULTIVAR_PEAK_MONTHS[c], d),
               full |-> classifyStatus(projectCalendarWindow(CULTIVAR_PEAK_MONTHS[c], d), d)]
  /\ UNCHANGED <<routeVars, home>>

NextPredict ==
  \/ \E w \in Windows, d \in ClassifyDays : Classify(w, d)
  \/ NextDay
  \/ \E crop \in DOMAIN CROP_GDD_TARGETS, g \in Regions, v \in ProbeGdd, d \in ProbeDays :
       ProjectGdd(crop, g, v, d)
  \/ \E v \in ProbeGdd : MoreGdd(v.totalGdd)
  \/ \E c \in DOMAIN CULTIVAR_PEAK_MONTHS, d \in CalendarDays : ProjectCalendar(c, d)

SpecPredict == Init /\ [][NextPredict]_vars

\* Requests spread over the clock, under steady weather.
Next ==
  \/ Tick
  \/ \E r \in Reqs : BadRequest(r)
  \/ \E r \in Reqs, l \in Locs : Start(r, l)
  \/ \E r \in Reqs, g \in Regions, v \in SteadyGdd : FetchResolve(r, g, v)
  \/ \E r \in Reqs, g \in Regions : FetchReject(r, g)
  \/ \E r \in Reqs : Complete(r)

Spec == Init /\ [][Next]_vars

\* Requests spread over the clock while the weather provider answers, with
\* the age of the weather data measured.
NextTimed ==
  \/ Tick
  \/ \E r \in Reqs, l \in Locs : Start(r, l)
  \/ \E r \in Reqs, g \in Regions, v \in SteadyGdd : FetchResolve(r, g, v)
  \/ \E r \in Reqs : Complete(r)

SpecTimed == InitTimed /\ [][NextTimed]_vars

\* ----------------------------------------------------------- the Home page
\* The mount effect: the first load, with the default location.
LoadInitial ==
  /\ ~home.hasLoadedInitial
  /\ home' = fetchDiscoveryData([home EXCEPT !.hasLoadedInitial = TRUE], DEFAULT_LOCATION)
  /\ UNCHANGED <<routeVars, probe>>

\* handleCitySelect: manualLocation set, and its effect fetches for the city.
HandleCitySelect(city) ==
  /\ home.hasLoadedInitial
  /\ home.issued < MaxFetches
  /\ home' = fetchDiscoveryData([home EXCEPT !.manualLocation = city], city)
  /\ UNCHANGED <<routeVars, probe>>

\* useGeolocation reports the browser's position: its effect fetches for it
\* unless a city has been picked.
GeoLocated ==
  /\ home.hasLoadedInitial
  /\ home.geoLocation = NoPlace
  /\ home.issued < MaxFetches
  /\ home' = IF home.manualLocation = NoPlace
               THEN fetchDiscoveryData([home EXCEPT !.geoLocation = GeoPlace], GeoPlace)
               ELSE [home EXCEPT !.geoLocation = GeoPlace]
  /\ UNCHANGED <<routeVars, probe>>

\* The response of request q arrives with a 200 body: the buckets are set
\* from it, then finally clears loading.
ResponseOk(q) ==
  /\ q \in home.inFlight
  /\ home' = [home EXCEPT !.inFlight = @ \ {q},
                          !.data = q.place,
                          !.loading = FALSE]
  /\ UNCHANGED <<routeVars, probe>>

\* The request q fails or is answered with an error status: the catch sets
\* the error, the buckets stay as they were.
ResponseFails(q) ==
  /\ q \in home.inFlight
  /\ home' = [home EXCEPT !.inFlight = @ \ {q},
                          !.error = TRUE,
                          !.loading = FALSE]
  /\ UNCHANGED <<routeVars, probe>>

NextHome ==
  \/ LoadInitial
  \/ \E city \in FALLBACK_CITIES : HandleCitySelect(city)
  \/ GeoLocated
  \/ \E q \in home.inFlight : ResponseOk(q)
  \/ \E q \in home.inFlight : ResponseFails(q)

SpecHome == Init /\ [][NextHome]_vars

\* ------------------------------------------------------ the model resolver
\* Catalogs as they might be authored: NumCultivars cultivars, each a GDD
\* cultivar or a parent naming any cultivar, itself included, or an id that
\* no cultivar has.
IdPool == <<"c1", "c2", "c3", "c4", "c5", "c6">>
AuthoredIds == {IdPool[i] : i \in 1..NumCultivars}
DanglingId == "c0"
AuthoredEntries ==
  {[modelType |-> "gdd", parentVarietyId |-> NoParent]}
    \cup {[modelType |-> "parent", parentVarietyId |-> k] : k \in AuthoredIds \cup {DanglingId}}
AuthoredCatalogs == [AuthoredIds -> AuthoredEntries]

\* resolve is called for cultivar c of the catalog of the repository.
ResolveCatalog(c) ==
  /\ probe = NoProbe
  /\ probe' = [op |-> "resolve", source |-> "CULTIVARS", catalog |-> CULTIVARS,
               start |-> c, at |-> c, visited |-> {}, hops |-> 0,
               result |-> "pending"]
  /\ UNCHANGED <<routeVars, home>>

\* resolve is called for cultivar c of an authored catalog.
ResolveAuthored(cat, c) ==
  /\ probe = NoProbe
  /\ probe' = [op |-> "resolve", source |-> "authored", catalog |-> cat,
               start |-> c, at |-> c, visited |-> {}, hops |-> 0,
               result |-> "pending"]
  /\ UNCHANGED <<routeVars, home>>

\* The resolver takes its next hop.
ResolveStep ==
  /\ probe.op = "resolve"
  /\ probe.result = "pending"
  /\ probe' = [probe EXCEPT
                 !.hops = @ + 1,
                 !.at = resolveHop(probe.catalog, probe.at, probe.visited).at,
                 !.visited = resolveHop(probe.catalog, probe.at, probe.visited).visited,
                 !.result = resolveHop(probe.catalog, probe.at, probe.visited).result]
  /\ UNCHANGED <<routeVars, home>>

\* Offerings and varieties with every field defined or not; an override may
\* be 0.
ProbeOfferings ==
  [gddToMaturityOverride : {<<>>, <<0>>, <<1900>>},
   gddToPeakOverride : {<<>>, <<2300>>},
   gddWindowOverride : {<<>>, <<0>>, <<300>>},
   baseTempOverride : {<<>>, <<0>>, <<45>>},
   peakMonthsOverride : {<<>>, << <<10, 11>> >>}]
ProbeVarieties ==
  [gddToMaturity : {<<>>, <<1800>>},
   gddToPeak : {<<>>, <<2200>>},
   gddWindow : {<<400>>},
   baseTemp : {<<>>, <<50>>},
   peakMonths : {<<>>, << <<9, 10>> >>}]
ProbeProducts == {"apple"}

Optional(S) == {<<>>} \cup {<<x>> : x \in S}

\* getOfferingDetails is called.
GetOfferingDetails(offering, variety, product) ==
  /\ probe = NoProbe
  /\ probe' = [op |-> "details", offering |-> offering, variety |-> variety,
               product |-> product,
               details |-> getOfferingDetails(offering, variety, product)]
  /\ UNCHANGED <<routeVars, home>>

NextResolve ==
  \/ \E offering \in Optional(ProbeOfferings), variety \in Optional(ProbeVarieties),
        product \in Optional(ProbeProducts) :
       GetOfferingDetails(offering, variety, product)
  \/ \E c \in DOMAIN CULTIVARS : ResolveCatalog(c)
  \/ \E cat \in AuthoredCatalogs, c \in AuthoredIds : ResolveAuthored(cat, c)
  \/ ResolveStep

SpecResolve == Init /\ [][NextResolve]_vars

\* A call of resolve runs on until it returns.
SpecResolveFair == SpecResolve /\ WF_vars(ResolveStep)

\* ------------------------------------------------------------------- claims
\* r entered fetchAllPredictions and GET has answered.
Ran(r) == pc[r] = "done" /\ ~fromCache[r] /\ response[r].status # 400

FailedRegions(r) == {g \in Regions : ~MapHas(regionGddMap[r], g)}

HasItem(preds, c) ==
  \E j \in 1..Len(preds) : preds[j].crop = c.crop /\ preds[j].region = c.region

\* Offerings of r's run whose region has data and whose prediction does not throw.
Survivors(r) ==
  {i \in 1..Len(Combinations) :
     /\ MapHas(regionGddMap[r], Combinations[i].region)
     /\ ~PredictThrows(Combinations[i].crop)}

\* Offerings of r's run whose region has data and whose prediction throws.
Thrown(r) ==
  {i \in 1..Len(Combinations) :
     /\ MapHas(regionGddMap[r], Combinations[i].region)
     /\ PredictThrows(Combinations[i].crop)}

\* Bucket contents apart from distance and daysUntil.
Strip(items) ==
  [i \in 1..Len(items) |->
     [items[i] EXCEPT !.distanceMiles = 0, !.daysUntil = Undefined]]

\* C1 (as claimed): among the requests that found no cache entry for their
\* hour bucket on entry, at most one writes the entry of that bucket.
C1_ColdBucketWrittenOnce ==
  \A k \in HourKeys :
    Cardinality({r \in Reqs : /\ Ran(r)
                              /\ response[r].status = 200
                              /\ entryAge[r] = Undefined
                              /\ cacheKey[r] = k}) <= 1

\* C2: the prediction set a cache hit uses, and every set the cache holds, is
\* the complete output of one finished fetchAllPredictions run.
C2_HitReadsCompleteSet ==
  /\ \A r \in Reqs : pc[r] = "done" /\ fromCache[r] => allPredictions[r] \in completed
  /\ \A k \in DOMAIN cache : cache[k].data \in completed

C2_Witness ==
  \E r \in Reqs : pc[r] = "done" /\ fromCache[r] /\ Len(allPredictions[r]) > 0

\* C3 (as claimed): a request for which no offering survived is answered
\* with a top-level error, never with a 200 body.
C3_AllFailedIsError ==
  \A r \in Reqs :
    pc[r] = "done" /\ allPredictions[r] = <<>> => response[r].status # 200

\* C4: in a run where some region's accumulation could not be obtained, every
\* offering of a region whose accumulation was obtained is in the result,
\* unless its own prediction threw.
C4_RegionFailureKeepsOthers ==
  \A r \in Reqs :
    Ran(r) /\ FailedRegions(r) # {} =>
      \A i \in Survivors(r) : HasItem(allPredictions[r], Combinations[i])

C4_Witness ==
  \E r \in Reqs :
    /\ Ran(r)
    /\ FailedRegions(r) # {}
    /\ Survivors(r) # {}
    /\ \A i \in Survivors(r) : HasItem(allPredictions[r], Combinations[i])

\* C5: in a run where the prediction of some offering threw, the result holds
\* exactly the other offerings whose region has data, each once.
C5_OfferingFailureDropsOnlyIt ==
  \A r \in Reqs :
    Ran(r) /\ Thrown(r) # {} =>
      /\ \A i \in 1..Len(Combinations) :
           HasItem(allPredictions[r], Combinations[i]) <=> i \in Survivors(r)
      /\ Len(allPredictions[r]) = Cardinality(Survivors(r))

C5_Witness ==
  \E r \in Reqs :
    /\ Ran(r)
    /\ Thrown(r) # {}
    /\ Len(allPredictions[r]) >= 2
    /\ \A i \in Thrown(r) : ~HasItem(allPredictions[r], Combinations[i])

C7_CompletionOrderIrrelevant ==
  \A r1, r2 \in Reqs :
    /\ Ran(r1) /\ Ran(r2)
    /\ Entries(regionGddMap[r1]) = Entries(regionGddMap[r2])
    => allPredictions[r1] = allPredictions[r2]

C7_Witness ==
  \E r1, r2 \in Reqs :
    /\ Ran(r1) /\ Ran(r2)
    /\ Entries(regionGddMap[r1]) = Entries(regionGddMap[r2])
    /\ regionGddMap[r1] # regionGddMap[r2]
    /\ Len(allPredictions[r1]) >= 2

\* C8 (as claimed): a request that finds an entry under its hour key is
\* served from the cache and calls the weather provider for no region.
C8_SameHourServedFromCache ==
  \A r \in Reqs :
    pc[r] # "idle" /\ response[r].status # 400 /\ entryAge[r] # Undefined =>
      fromCache[r] /\ \A g \in Regions : gddCalls[r][g] = 0

\* C8 (amended): a request that finds an entry under its hour key that was
\* stored less than CACHE_TTL ago is served from the cache, with the stored
\* set, and calls the weather provider for no region.
C8_FreshEntryServedFromCache ==
  \A r \in Reqs :
    /\ pc[r] # "idle" /\ response[r].status # 400
    /\ entryAge[r] # Undefined /\ entryAge[r] < CACHE_TTL
    => /\ pc[r] = "done" /\ fromCache[r]
       /\ allPredictions[r] \in completed
       /\ \A g \in Regions : gddCalls[r][g] = 0

C8_Witness ==
  \E r \in Reqs :
    /\ pc[r] = "done" /\ fromCache[r]
    /\ entryAge[r] = CACHE_TTL - 1
    /\ \A g \in Regions : gddCalls[r][g] = 0

\* C9 (as claimed): two answered requests of the same hour bucket and the
\* same location carry the same bucket contents, distance and daysUntil apart.
C9_SameBucketSameContents ==
  \A r1, r2 \in Reqs :
    /\ pc[r1] = "done" /\ response[r1].status = 200
    /\ pc[r2] = "done" /\ response[r2].status = 200
    /\ cacheKey[r1] = cacheKey[r2]
    /\ loc[r1] = loc[r2]
    => /\ Strip(response[r1].inSeason) = Strip(response[r2].inSeason)
       /\ Strip(response[r1].comingSoon) = Strip(response[r2].comingSoon)

\* C10: a run calls getGddAccumulation exactly once for every region, also
\* for a region with several offerings and for a region whose fetch failed;
\* a request that does not run the aggregation calls it for none.
C10_OneFetchPerRegion ==
  \A r \in Reqs : \A g \in Regions :
    gddCalls[r][g] =
      IF pc[r] # "idle" /\ ~fromCache[r] /\ response[r].status # 400 THEN 1 ELSE 0

C10_Witness ==
  \E r \in Reqs : \E g, h \in Regions :
    /\ Ran(r)
    /\ Len(US_GROWING_REGIONS[g].viableCrops) > 1
    /\ gddCalls[r][g] = 1
    /\ h \in FailedRegions(r)
    /\ gddCalls[r][h] = 1

\* The items of both buckets of a 200 body.
Served(r) == Entries(response[r].inSeason) \cup Entries(response[r].comingSoon)

OwnDistance(r, p) ==
  getDistanceMiles(loc[r].lat, loc[r].lon,
                   US_GROWING_REGIONS[p.region].latitude,
                   US_GROWING_REGIONS[p.region].longitude)

\* C11: what a request is served depends only on its own lat/lon and on the
\* prediction set it read: every served item carries the distance from this
\* caller and is otherwise an item of that set, two requests with the same set
\* and the same location receive the same body, and serving a caller leaves
\* every cache entry the set a fetchAllPredictions run returned, so a later
\* caller elsewhere reads the entry as it was stored.
C11_ServingLeavesCacheEntry ==
  /\ \A k \in DOMAIN cache : cache[k].data \in completed
  /\ \A r \in Reqs :
       response[r].status = 200 =>
         /\ allPredictions[r] \in completed
         /\ \A p \in Served(r) :
              /\ p.distanceMiles = OwnDistance(r, p)
              /\ [p EXCEPT !.distanceMiles = 0] \in Entries(allPredictions[r])
         /\ \A q \in Reqs :
              (/\ response[q].status = 200
               /\ allPredictions[q] = allPredictions[r]
               /\ loc[q] = loc[r]) => response[q] = response[r]

\* A caller was served from the entry another caller at a different place had
\* filled, and the two received different distances.
C11_Witness ==
  \E r, q \in Reqs :
    /\ response[r].status = 200 /\ response[q].status = 200
    /\ ~fromCache[r] /\ fromCache[q]
    /\ loc[r] # loc[q]
    /\ allPredictions[q] = allPredictions[r]
    /\ Served(q) # {}
    /\ Served(q) # Served(r)

\* C12: in the inSeason bucket of a 200 body every item is at_peak or
\* in_season, every at_peak item comes before every in_season item, and items
\* of the same status are in ascending order of distance from the caller.
C12_PeakFirstThenNearest ==
  \A r \in Reqs :
    response[r].status = 200 =>
      LET b == response[r].inSeason
      IN /\ \A i \in 1..Len(b) : b[i].status \in {"at_peak", "in_season"}
         /\ \A i, j \in 1..Len(b) :
              i < j =>
                /\ ~(b[i].status = "in_season" /\ b[j].status = "at_peak")
                /\ b[i].status = b[j].status => b[i].distanceMiles <= b[j].distanceMiles

\* One caller got an at_peak item ahead of a nearer in_season item, another
\* got two in_season items with the later catalog entry, the nearer, first.
C12_Witness ==
  \E r, q \in Reqs :
    /\ response[r].status = 200 /\ Len(response[r].inSeason) = 2
    /\ response[r].inSeason[1].status = "at_peak"
    /\ response[r].inSeason[2].status = "in_season"
    /\ response[r].inSeason[2].distanceMiles < response[r].inSeason[1].distanceMiles
    /\ response[q].status = 200 /\ Len(response[q].inSeason) = 2
    /\ response[q].inSeason[1].status = response[q].inSeason[2].status
    /\ response[q].inSeason[1].region = "gulf_coast_citrus"
    /\ response[q].inSeason[1].distanceMiles < response[q].inSeason[2].distanceMiles

\* C13: the comingSoon bucket of a 200 body holds approaching items in
\* ascending order of daysUntil.
C13_SoonestFirst ==
  \A r \in Reqs :
    response[r].status = 200 =>
      LET b == response[r].comingSoon
      IN /\ \A i \in 1..Len(b) : b[i].status = "approaching" /\ b[i].daysUntil # Undefined
         /\ \A i, j \in 1..Len(b) : i < j => b[i].daysUntil <= b[j].daysUntil

\* The sooner item is the farther one and the later catalog entry, and it
\* comes first.
C13_Witness ==
  \E r \in Reqs :
    /\ response[r].status = 200 /\ Len(response[r].comingSoon) = 2
    /\ response[r].comingSoon[1].daysUntil < response[r].comingSoon[2].daysUntil
    /\ response[r].comingSoon[1].distanceMiles > response[r].comingSoon[2].distanceMiles
    /\ response[r].comingSoon[1].region = "gulf_coast_citrus"

\* C14 (as claimed): a 200 body carries totalResults, the number of offerings
\* that survived prediction, which is the length of the prediction set the
\* body was built from.
C14_TotalResultsCountsSurvivors ==
  \A r \in Reqs :
    response[r].status = 200 =>
      /\ "totalResults" \in DOMAIN response[r]
      /\ response[r].totalResults = Len(allPredictions[r])

\* The condition under which the transition rule assigns status s to window w
\* on day d, each written on its own.
StatusHolds(s, w, d) ==
  IF s = "pre_season"
    THEN d < w.harvestStartDate /\ w.harvestStartDate - d > ApproachingThresholdDays
  ELSE IF s = "approaching"
    THEN d < w.harvestStartDate /\ w.harvestStartDate - d <= ApproachingThresholdDays
  ELSE IF s = "at_peak" THEN w.peakStartDate <= d /\ d <= w.peakEndDate
  ELSE IF s = "in_season" THEN w.harvestStartDate <= d /\ d < w.peakStartDate
  ELSE IF s = "past_peak" THEN w.peakEndDate < d /\ d <= w.harvestEndDate
  ELSE IF s = "ended" THEN d > w.harvestEndDate
  ELSE FALSE

FullStatuses == {"pre_season", "approaching", "in_season", "at_peak", "past_peak", "ended"}
FeedStatuses == {"off_season", "approaching", "in_season", "at_peak"}

\* The statuses of the full model whose condition holds, and of the feed.
FullHolding(w, d) == {s \in FullStatuses : StatusHolds(s, w, d)}
FeedHolding(w, d) == {FeedStatus(s) : s \in FullHolding(w, d)}

\* C15: for every window and every day the conditions of the states single
\* out exactly one state, with no gap and no overlap, and it is the status the
\* classifier assigns, in the six states of the full model and in the four of
\* the feed.
C15_StatusPartition ==
  /\ probe.op \in {"classify", "calendar"} =>
       /\ Cardinality(FullHolding(probe.window, probe.today)) = 1
       /\ FullHolding(probe.window, probe.today) = {probe.full.status}
  /\ probe.op = "classify" =>
       /\ probe.feed.status \in FeedStatuses
       /\ FeedHolding(probe.window, probe.today) = {probe.feed.status}
  /\ (probe.op = "gdd" /\ probe.item # <<>>) =>
       FeedHolding(probe.window, probe.today) = {probe.item[1].status}

\* The last day of a window whose start and peak are one day and which
\* outlasts its peak.
C15_Witness ==
  /\ probe.op = "classify"
  /\ probe.window.peakEndDate < probe.window.harvestEndDate
  /\ probe.window.harvestStartDate = probe.window.peakEndDate
  /\ probe.today = probe.window.harvestEndDate
  /\ probe.full.status = "past_peak"
  /\ probe.feed.status = "in_season"

\* The place of a status in the order of a season.
SeasonOrder == <<"pre_season", "approaching", "in_season", "at_peak", "past_peak", "ended">>
Rank(s) == CHOOSE i \in 1..Len(SeasonOrder) : SeasonOrder[i] = s

C17_ApproachingWithinThreshold ==
  /\ (probe.op = "classify" /\ probe.today < probe.window.harvestStartDate) =>
       LET days == probe.window.harvestStartDate - probe.today
       IN IF days <= ApproachingThresholdDays
            THEN /\ probe.full = [status |-> "approaching", daysUntil |-> days]
                 /\ probe.feed = [status |-> "approaching", daysUntil |-> days]
            ELSE /\ probe.full.status = "pre_season"
                 /\ probe.feed.status = "off_season"
  /\ (probe.op = "gdd" /\ probe.item # <<>> /\ probe.today < probe.window.harvestStartDate) =>
       LET days == probe.window.harvestStartDate - probe.today
           p == probe.item[1]
       IN IF days <= ApproachingThresholdDays
            THEN p.status = "approaching" /\ p.daysUntil = days /\ IsComingSoon(p)
            ELSE p.status = "off_season" /\ ~IsComingSoon(p) /\ ~IsInSeason(p)

\* An offering exactly 21 days before its harvest start, kept in comingSoon.
C17_Witness ==
  /\ probe.op = "gdd" /\ probe.item # <<>>
  /\ probe.window.harvestStartDate - probe.today = ApproachingThresholdDays
  /\ probe.item[1].status = "approaching"
  /\ probe.item[1].daysUntil = ApproachingThresholdDays
  /\ IsComingSoon(probe.item[1])

\* The month of a day of the current year.
MonthOf(d) ==
  CHOOSE m \in 1..MonthsPerYear : DateOf(m, 1) <= d /\ d <= DateOf(m, MonthDays[m])

\* C18: every day from peakStartDate to peakEndDate, both included, is
\* at_peak, in the full model and in the feed; for a calendar cultivar every
\* day of a peak month is such a day, also when the peak months run over the
\* year boundary (navel_orange, peakMonths 11, 12, 1, on 15 December).
C18_PeakDaysAreAtPeak ==
  /\ (/\ probe.op = "classify"
      /\ probe.window.peakStartDate <= probe.today
      /\ probe.today <= probe.window.peakEndDate) =>
       probe.full.status = "at_peak" /\ probe.feed.status = "at_peak"
  /\ (/\ probe.op = "gdd" /\ probe.item # <<>>
      /\ probe.window.peakStartDate <= probe.today
      /\ probe.today <= probe.window.peakEndDate) =>
       probe.item[1].status = "at_peak"
  /\ (/\ probe.op = "calendar"
      /\ MonthOf(probe.today) \in Entries(CULTIVAR_PEAK_MONTHS[probe.cultivar])) =>
       /\ probe.window.peakStartDate <= probe.today
       /\ probe.today <= probe.window.peakEndDate
       /\ probe.full.status = "at_peak"
  /\ (/\ probe.op = "calendar" /\ probe.cultivar = "navel_orange"
      /\ probe.today = DateOf(12, 15)) => probe.full.status = "at_peak"

\* Navel oranges on 15 December, in a peak that ends in January of next year.
C18_Witness ==
  /\ probe.op = "calendar" /\ probe.cultivar = "navel_orange"
  /\ probe.today = DateOf(12, 15)
  /\ probe.full.status = "at_peak"
  /\ probe.window.peakEndDate > DateOf(12, 31)

ProjectedFrom(date, thresholdGdd, totalGdd, avgDailyGdd, today) ==
  LET k == date - today
  IN /\ k >= 0
     /\ thresholdGdd <= totalGdd => k = 0
     /\ thresholdGdd > totalGdd =>
          /\ k * avgDailyGdd >= thresholdGdd - totalGdd
          /\ (k - 1) * avgDailyGdd < thresholdGdd - totalGdd

\* C20: under the GDD model with avgDailyGdd > 0 each of the four dates of
\* the window is today + max(0, (thresholdGdd - totalGdd) / avgDailyGdd) days,
\* today itself for a threshold already passed; with totalGdd 800,
\* maturityGdd 1600 and avgDailyGdd 20 harvestStartDate is today + 40, and
\* the status is then off_season, not approaching.
C20_LinearProjection ==
  (probe.op = "gdd" /\ probe.gdd.avgDailyGdd > 0) =>
    LET t == CROP_GDD_TARGETS[probe.crop]
        w == probe.window
        g == probe.gdd
    IN /\ ProjectedFrom(w.harvestStartDate, t.maturityGdd, g.totalGdd, g.avgDailyGdd, probe.today)
       /\ ProjectedFrom(w.peakStartDate, t.peakStartGdd, g.totalGdd, g.avgDailyGdd, probe.today)
       /\ ProjectedFrom(w.peakEndDate, t.peakEndGdd, g.totalGdd, g.avgDailyGdd, probe.today)
       /\ ProjectedFrom(w.harvestEndDate, t.windowEndGdd, g.totalGdd, g.avgDailyGdd, probe.today)
       /\ (t.maturityGdd = 1600 /\ g.totalGdd = 800 /\ g.avgDailyGdd = 20) =>
            /\ w.harvestStartDate = probe.today + 40
            /\ probe.item[1].status = "off_season"

\* The scenario asked on day 7, and a later threshold of the same crop that
\* lies further ahead.
C20_Witness ==
  /\ probe.op = "gdd" /\ probe.today = 7
  /\ CROP_GDD_TARGETS[probe.crop].maturityGdd = 1600
  /\ probe.gdd = [totalGdd |-> 800, avgDailyGdd |-> 20]
  /\ probe.window.harvestStartDate = 47
  /\ probe.window.peakStartDate > 47

\* C21: for a fixed crop, region, day and avgDailyGdd, the days ahead to each
\* of the four thresholds with more totalGdd are at most the days ahead with
\* less.
C21_MoreHeatNeverFurther ==
  probe.op = "gdd" =>
    /\ probe.window.harvestStartDate <= probe.prior.harvestStartDate
    /\ probe.window.peakStartDate <= probe.prior.peakStartDate
    /\ probe.window.peakEndDate <= probe.prior.peakEndDate
    /\ probe.window.harvestEndDate <= probe.prior.harvestEndDate

\* More heat brought the harvest start nearer and left a date already
\* reached where it was, today.
C21_Witness ==
  /\ probe.op = "gdd" /\ probe.gdd.avgDailyGdd > 0
  /\ probe.prior.harvestStartDate = probe.today
  /\ probe.window.harvestStartDate = probe.today
  /\ probe.window.peakStartDate < probe.prior.peakStartDate

Ordered(w) ==
  /\ w.harvestStartDate <= w.peakStartDate
  /\ w.peakStartDate <= w.peakEndDate
  /\ w.peakEndDate <= w.harvestEndDate

Finite(date) == date < Infinity /\ date > 0 - Infinity

\* C23: with avgDailyGdd <= 0 the projection raises nothing, so the loop body
\* yields its item; the window has low confidence, lower than with any
\* positive rate; and each of its four dates is finite and not before today,
\* today for a threshold already passed and far ahead for one not reached.
C23_NoGrowthIsNoError ==
  (probe.op = "gdd" /\ probe.gdd.avgDailyGdd <= 0) =>
    /\ probe.item # <<>>
    /\ probe.confidence <= LowConfidence
    /\ \A v \in ProbeGdd : v.avgDailyGdd > 0 => probe.confidence < projectConfidence(v.avgDailyGdd)
    /\ \A d \in {probe.window.harvestStartDate, probe.window.peakStartDate,
                  probe.window.peakEndDate, probe.window.harvestEndDate} :
         Finite(d) /\ d >= probe.today
    /\ Ordered(probe.window)

\* No growth, the harvest start passed and the peak not reached.
C23_Witness ==
  /\ probe.op = "gdd" /\ probe.gdd.avgDailyGdd = 0
  /\ probe.item # <<>>
  /\ probe.window.harvestStartDate = probe.today
  /\ probe.window.peakStartDate = probe.today + NoDaysUntil
  /\ probe.confidence = LowConfidence

\* C24 (as claimed): in the catalog of the repository every cultivar of model
\* type parent resolves to a cultivar the catalog holds whose model type is
\* not parent.
C24_ParentResolvesToAncestor ==
  (/\ probe.op = "resolve" /\ probe.source = "CULTIVARS"
   /\ CULTIVARS[probe.start].modelType = "parent"
   /\ probe.result # "pending") =>
    /\ probe.result = "resolved"
    /\ probe.at \in DOMAIN CULTIVARS
    /\ CULTIVARS[probe.at].modelType # "parent"

\* Following parent references in catalog cat from c, having passed the
\* cultivars of seen, leads back to a cultivar already passed.
RECURSIVE CyclicFrom(_, _, _)
CyclicFrom(cat, c, seen) ==
  IF c \notin DOMAIN cat THEN FALSE
  ELSE IF cat[c].modelType # "parent" THEN FALSE
  ELSE IF c \in seen THEN TRUE
  ELSE CyclicFrom(cat, cat[c].parentVarietyId, seen \cup {c})

Cyclic(cat, c) == CyclicFrom(cat, c, {})

Returned == {"resolved", "null", "InvalidCultivarChain"}

C26_OverrideElseDefault ==
  (probe.op = "details" /\ ~probe.details.isNull) =>
    LET o == probe.offering[1]
        v == probe.variety[1]
        d == probe.details
    IN /\ d.gddToMaturity = IF o.gddToMaturityOverride # <<>> THEN o.gddToMaturityOverride
                                                               ELSE v.gddToMaturity
       /\ d.gddToPeak = IF o.gddToPeakOverride # <<>> THEN o.gddToPeakOverride ELSE v.gddToPeak
       /\ d.gddWindow = IF o.gddWindowOverride # <<>> THEN o.gddWindowOverride ELSE v.gddWindow
       /\ d.baseTemp = IF o.baseTempOverride # <<>> THEN o.baseTempOverride ELSE v.baseTemp
       /\ d.peakMonths = IF o.peakMonthsOverride # <<>> THEN o.peakMonthsOverride
                                                         ELSE v.peakMonths

\* An override of 0 is kept, a missing override gives way to the default, and
\* a field undefined in both places stays undefined.
C26_Witness ==
  /\ probe.op = "details" /\ ~probe.details.isNull
  /\ probe.offering[1].baseTempOverride = <<0>> /\ probe.variety[1].baseTemp = <<50>>
  /\ probe.details.baseTemp = <<0>>
  /\ probe.offering[1].gddToPeakOverride = <<>> /\ probe.details.gddToPeak = <<2200>>
  /\ probe.offering[1].gddToMaturityOverride = <<1900>> /\ probe.details.gddToMaturity = <<1900>>
  /\ probe.details.peakMonths = <<>>

\* The positions of bucket b that hold the offering of item p.
PositionsOf(b, p) == {i \in 1..Len(b) : b[i].crop = p.crop /\ b[i].region = p.region}

\* C27 (as claimed): every item of the prediction set a 200 body was built
\* from is at exactly one position of exactly one bucket of the body.
C27_EveryItemInOneBucket ==
  \A r \in Reqs :
    response[r].status = 200 =>
      \A i \in 1..Len(allPredictions[r]) :
        Cardinality(PositionsOf(response[r].inSeason, allPredictions[r][i]))
          + Cardinality(PositionsOf(response[r].comingSoon, allPredictions[r][i])) = 1

\* C28 (as claimed): no 200 body is built from predictions whose weather
\* accumulation was fetched more than CACHE_TTL before the request.  (A
\* request that ran the aggregation itself fetched its weather after it
\* arrived; the case is a request served from the cache.)
C28_WeatherWithinTtl ==
  \A r \in Reqs :
    pc[r] = "done" /\ response[r].status = 200 /\ fromCache[r] /\ dataAge[r] >= 0 =>
      dataAge[r] <= CACHE_TTL

\* C28 (amended): a 200 body built from the cache uses an entry that was
\* stored less than CACHE_TTL before the request; the weather behind it
\* is at least as old as the entry, the aggregation run having come before
\* the store.
C28_StoredWithinTtl ==
  \A r \in Reqs :
    pc[r] = "done" /\ fromCache[r] =>
      /\ response[r].status = 200
      /\ entryAge[r] # Undefined /\ entryAge[r] < CACHE_TTL
      /\ dataAge[r] >= 0 => dataAge[r] >= entryAge[r]

\* A request served from an entry stored a quarter hour before, whose
\* weather answers began a quarter hour before the store.
C28_Witness ==
  \E r \in Reqs :
    /\ pc[r] = "done" /\ fromCache[r]
    /\ entryAge[r] = CACHE_TTL - 1
    /\ dataAge[r] = CACHE_TTL

\* C29 (as claimed): entries for past hour buckets do not accumulate: once a
\* request of the current hour has been answered with a 200 body, the cache
\* holds no entry of an earlier hour that is CACHE_TTL old or older.
C29_PastBucketsDoNotAccumulate ==
  (\E r \in Reqs : /\ pc[r] = "done" /\ response[r].status = 200
                   /\ cacheKey[r] = HourKey(now))
    => \A k \in DOMAIN cache :
         k < HourKey(now) => now - cache[k].timestamp < CACHE_TTL

\* C30 (as claimed): once every request of the Home page has been answered
\* and no error is shown, the buckets displayed are those of the response
\* for the place asked for last.
C30_LatestLocationDisplayed ==
  home.inFlight = {} /\ ~home.error /\ home.data # NoPlace =>
    home.data = home.requested
====
